---- MODULE Spec2Model ----
(***************************************************************************)
(* A model of tools/generate_assets.py of Lich's Portfolio: the palette,   *)
(* the compound primitive draw_rounded_rect, the shape composers (each     *)
(* modelled as the sequence of primitive draw calls it issues on its       *)
(* canvas), the seeded age-spot scatter of the world map background, and   *)
(* the driver main() that walks the catalog, saves one file per entry and  *)
(* writes the manifest.                                                    *)
(***************************************************************************)
EXTENDS Integers, Sequences, FiniteSets, TLC

(***************************************************************************)
(* Palette (generate_assets.py:15-40).  A colour is a tuple of channels;   *)
(* None is the absent fill or outline of a primitive call.                 *)
(***************************************************************************)
None == <<>>

COLORS ==
    [primary |-> <<45, 27, 78>>,
     secondary |-> <<232, 224, 213>>,
     accent |-> <<201, 162, 39>>,
     background |-> <<10, 10, 15>>,
     text |-> <<212, 208, 200>>,
     transparent |-> <<0, 0, 0, 0>>]

\* Dictionaries are kept as sequences of <<key, value>> in insertion order,
\* the order in which main() iterates over .items().
INVESTMENT_COLORS ==
    << <<"property", <<139, 90, 43>> >>,
       <<"trade", <<65, 105, 225>> >>,
       <<"financial", <<201, 162, 39>> >>,
       <<"magical", <<148, 0, 211>> >>,
       <<"political", <<178, 34, 34>> >>,
       <<"dark", <<20, 20, 25>> >> >>

AGENT_COLORS ==
    << <<"individual", <<169, 169, 169>> >>,
       <<"family", <<218, 165, 32>> >>,
       <<"cult", <<75, 0, 130>> >>,
       <<"bound", <<0, 100, 0>> >> >>

(***************************************************************************)
(* Primitive draw calls of PIL.ImageDraw, as the composers issue them.     *)
(* xy is the flat coordinate list: [x0, y0, x1, y1] for a box, or          *)
(* x1, y1, x2, y2, ... for the points of a polygon or a line.              *)
(***************************************************************************)
Transparent == <<0, 0, 0, 0>>

Rectangle(xy, fill) ==
    [op |-> "rectangle", xy |-> xy, fill |-> fill, outline |-> None, width |-> 1]

RectangleOutline(xy, fill, outline, width) ==
    [op |-> "rectangle", xy |-> xy, fill |-> fill, outline |-> outline, width |-> width]

Ellipse(xy, fill) ==
    [op |-> "ellipse", xy |-> xy, fill |-> fill, outline |-> None, width |-> 1]

EllipseOutline(xy, outline, width) ==
    [op |-> "ellipse", xy |-> xy, fill |-> None, outline |-> outline, width |-> width]

Polygon(xy, fill) ==
    [op |-> "polygon", xy |-> xy, fill |-> fill, outline |-> None, width |-> 1]

Line(xy, fill, width) ==
    [op |-> "line", xy |-> xy, fill |-> fill, outline |-> None, width |-> width]

Pieslice(xy, start, end, fill) ==
    [op |-> "pieslice", xy |-> xy, fill |-> fill, outline |-> None, width |-> 1,
     start |-> start, end |-> end]

RoundedRectangle(xy, radius, fill) ==
    [op |-> "rounded_rectangle", xy |-> xy, fill |-> fill, outline |-> None,
     width |-> 1, radius |-> radius]

\* Image.new(mode, (w, h), bg) followed by the draw calls made on it.
Image(w, h, bg, prims) ==
    [kind |-> "image", w |-> w, h |-> h, bg |-> bg, prims |-> prims]

\* An exception leaving the composer.
Raised(error) == [kind |-> "error", error |-> error]

Max(a, b) == IF a >= b THEN a ELSE b
Min(a, b) == IF a <= b THEN a ELSE b
Abs(n) == IF n < 0 THEN -n ELSE n

\* Python's int() on a quotient: truncation toward zero.
TruncDiv(a, b) == IF a >= 0 THEN a \div b ELSE -((-a) \div b)

(***************************************************************************)
(* draw_rounded_rect (generate_assets.py:50-58): two rectangles and four   *)
(* quarter discs.                                                          *)
(***************************************************************************)
draw_rounded_rect_exclusive(xy, radius, fill) ==
    LET x0 == xy[1]
        y0 == xy[2]
        x1 == xy[3]
        y1 == xy[4]
    IN << Rectangle(<<x0 + radius, y0, x1 - radius - 1, y1 - 1>>, fill),
          Rectangle(<<x0, y0 + radius, x1 - 1, y1 - radius - 1>>, fill),
          Pieslice(<<x0, y0, x0 + 2 * radius, y0 + 2 * radius>>, 180, 270, fill),
          Pieslice(<<x1 - 2 * radius, y0, x1, y0 + 2 * radius>>, 270, 360, fill),
          Pieslice(<<x0, y1 - 2 * radius, x0 + 2 * radius, y1>>, 90, 180, fill),
          Pieslice(<<x1 - 2 * radius, y1 - 2 * radius, x1, y1>>, 0, 90, fill) >>

draw_rounded_rect(xy, radius, fill) ==
    LET x0 == xy[1]
        y0 == xy[2]
        x1 == xy[3]
        y1 == xy[4]
    IN << Rectangle(<<x0 + radius, y0, x1 - radius, y1>>, fill),
          Rectangle(<<x0, y0 + radius, x1, y1 - radius>>, fill),
          Pieslice(<<x0, y0, x0 + 2 * radius, y0 + 2 * radius>>, 180, 270, fill),
          Pieslice(<<x1 - 2 * radius, y0, x1, y0 + 2 * radius>>, 270, 360, fill),
          Pieslice(<<x0, y1 - 2 * radius, x0 + 2 * radius, y1>>, 90, 180, fill),
          Pieslice(<<x1 - 2 * radius, y1 - 2 * radius, x1, y1>>, 0, 90, fill) >>

(***************************************************************************)
(* math.cos and math.sin of the ten star angles k*36 - 90 degrees          *)
(* (k = 0..9).  A value is <<sign, magnitude>>; a magnitude is its whole    *)
(* part followed by its first fifteen decimals in five groups of three.    *)
(* The cosine of +-90 degrees, 6.1e-17 in floating point, has magnitude 0:  *)
(* its product with a radius truncates to 0.                               *)
(***************************************************************************)
TrigBase == 1000

CosTable ==
    LET cos90 == <<0, 0, 0, 0, 0, 0>>
        cos54 == <<0, 587, 785, 252, 292, 473>>
        cos18 == <<0, 951, 56, 516, 295, 153>>
    IN << <<1, cos90>>, <<1, cos54>>, <<1, cos18>>, <<1, cos18>>, <<1, cos54>>,
          <<1, cos90>>, <<-1, cos54>>, <<-1, cos18>>, <<-1, cos18>>, <<-1, cos54>> >>

SinTable ==
    LET sin90 == <<1, 0, 0, 0, 0, 0>>
        sin54 == <<0, 809, 16, 994, 374, 947>>
        sin18 == <<0, 309, 16, 994, 374, 947>>
    IN << <<-1, sin90>>, <<-1, sin54>>, <<-1, sin18>>, <<1, sin18>>, <<1, sin54>>,
          <<1, sin90>>, <<1, sin54>>, <<1, sin18>>, <<-1, sin18>>, <<-1, sin54>> >>

\* The whole part of n * m for a natural n and a magnitude m, group by group
\* from the last decimals up (every product stays below 2^31 for n < 2^21).
WholeOfProduct(n, m) ==
    LET c5 == (n * m[6]) \div TrigBase
        c4 == (n * m[5] + c5) \div TrigBase
        c3 == (n * m[4] + c4) \div TrigBase
        c2 == (n * m[3] + c3) \div TrigBase
        c1 == (n * m[2] + c2) \div TrigBase
    IN n * m[1] + c1

\* int(r * t) and int(r * 0.4 * t) for a radius r >= 0 and a table entry t.
IntOfProduct(r, t) == t[1] * WholeOfProduct(r, t[2])
IntOfInnerProduct(r, t) == t[1] * (WholeOfProduct(4 * r, t[2]) \div 10)

\* The two points appended in iteration i of the star loop (lines 104-112).
StarPoints(i, center, margin) ==
    LET r == center - margin
        x == center + IntOfProduct(r, CosTable[2 * i + 1])
        y == center + IntOfProduct(r, SinTable[2 * i + 1])
        x2 == center + IntOfInnerProduct(r, CosTable[2 * i + 2])
        y2 == center + IntOfInnerProduct(r, SinTable[2 * i + 2])
    IN <<x, y, x2, y2>>

(***************************************************************************)
(* create_investment_icon (generate_assets.py:61-145).  The draw calls of  *)
(* the branch taken; a name matching no branch falls through the chain.    *)
(***************************************************************************)
\* The coin with its two inner discs drawn in the opposite order.
investment_icon_prims_swapped(name, color, size) ==
    LET margin == size \div 8
        inner == margin + size \div 8
        inner2 == inner + size \div 12
    IN IF name = "financial" THEN
           << Ellipse(<<margin, margin, size - margin, size - margin>>, color),
              Ellipse(<<inner2, inner2, size - inner2, size - inner2>>, color),
              Ellipse(<<inner, inner, size - inner, size - inner>>, COLORS.background) >>
       ELSE <<>>

investment_icon_prims(name, color, size) ==
    LET margin == size \div 8
        center == size \div 2
    IN IF name = "property" THEN
           << Polygon(<<center, margin, margin, center, size - margin, center>>, color),
              Rectangle(<<margin + 4, center, size - margin - 4, size - margin>>, color) >>
       ELSE IF name = "trade" THEN
           LET arrow_width == size \div 6
           IN << Polygon(<<margin, center - arrow_width,
                           size - margin - arrow_width, center - arrow_width,
                           size - margin - arrow_width, margin,
                           size - margin, center,
                           size - margin - arrow_width, size - margin,
                           size - margin - arrow_width, center + arrow_width,
                           margin, center + arrow_width>>, color) >>
       ELSE IF name = "financial" THEN
           LET inner == margin + size \div 8
               inner2 == inner + size \div 12
           IN << Ellipse(<<margin, margin, size - margin, size - margin>>, color),
                 Ellipse(<<inner, inner, size - inner, size - inner>>, COLORS.background),
                 Ellipse(<<inner2, inner2, size - inner2, size - inner2>>, color) >>
       ELSE IF name = "magical" THEN
           << Polygon(StarPoints(0, center, margin) \o StarPoints(1, center, margin)
                      \o StarPoints(2, center, margin) \o StarPoints(3, center, margin)
                      \o StarPoints(4, center, margin), color) >>
       ELSE IF name = "political" THEN
           LET base_y == size - margin - size \div 6
           IN << Polygon(<<margin, base_y,
                           margin, size - margin,
                           size - margin, size - margin,
                           size - margin, base_y,
                           size - margin - size \div 8, margin + size \div 4,
                           center + size \div 8, base_y - size \div 8,
                           center, margin,
                           center - size \div 8, base_y - size \div 8,
                           margin + size \div 8, margin + size \div 4>>, color) >>
       ELSE IF name = "dark" THEN
           LET eye_size == size \div 6
               eye_y == center - size \div 8
           IN << Ellipse(<<margin + 4, margin, size - margin - 4,
                           size - margin - size \div 4>>, color),
                 Rectangle(<<margin + size \div 5, size - margin - size \div 3,
                             size - margin - size \div 5, size - margin>>, color),
                 Ellipse(<<center - size \div 4 - eye_size \div 2, eye_y - eye_size \div 2,
                           center - size \div 4 + eye_size \div 2, eye_y + eye_size \div 2>>,
                         COLORS.background),
                 Ellipse(<<center + size \div 4 - eye_size \div 2, eye_y - eye_size \div 2,
                           center + size \div 4 + eye_size \div 2, eye_y + eye_size \div 2>>,
                         COLORS.background) >>
       ELSE <<>>

create_investment_icon(name, color, size) ==
    Image(size, size, Transparent, investment_icon_prims(name, color, size))

(***************************************************************************)
(* create_agent_icon (generate_assets.py:148-209).                         *)
(***************************************************************************)
\* One iteration of the chain loop (lines 204-207): a left and a right link.
ChainPair(i, size, margin, chain_r) ==
    LET y == margin + (i * size) \div 4
    IN << EllipseOutline(<<margin - chain_r, y, margin + chain_r, y + chain_r * 2>>,
                         COLORS.accent, 2),
          EllipseOutline(<<size - margin - chain_r, y, size - margin + chain_r,
                           y + chain_r * 2>>, COLORS.accent, 2) >>

agent_icon_prims(name, color, size) ==
    LET margin == size \div 8
        center == size \div 2
    IN IF name = "individual" THEN
           LET head_r == size \div 6
           IN << Ellipse(<<center - head_r, margin, center + head_r, margin + head_r * 2>>,
                         color),
                 Polygon(<<center - size \div 4, margin + head_r * 2 + 2,
                           center + size \div 4, margin + head_r * 2 + 2,
                           center + size \div 3, size - margin,
                           center - size \div 3, size - margin>>, color) >>
       ELSE IF name = "family" THEN
           LET head_r == size \div 10
           IN << Ellipse(<<center - head_r, margin, center + head_r, margin + head_r * 2>>,
                         color),
                 Ellipse(<<margin + size \div 8 - head_r, center,
                           margin + size \div 8 + head_r, center + head_r * 2>>, color),
                 Ellipse(<<size - margin - size \div 8 - head_r, center,
                           size - margin - size \div 8 + head_r, center + head_r * 2>>,
                         color),
                 Line(<<center, margin + head_r * 2, center, center - head_r>>, color, 2),
                 Line(<<margin + size \div 8, center - head_r,
                        size - margin - size \div 8, center - head_r>>, color, 2),
                 Line(<<margin + size \div 8, center - head_r,
                        margin + size \div 8, center>>, color, 2),
                 Line(<<size - margin - size \div 8, center - head_r,
                        size - margin - size \div 8, center>>, color, 2) >>
       ELSE IF name = "cult" THEN
           LET hood_w == size \div 3
           IN << Polygon(<<center, margin,
                           center - hood_w, center + size \div 6,
                           center - hood_w + size \div 8, size - margin,
                           center + hood_w - size \div 8, size - margin,
                           center + hood_w, center + size \div 6>>, color),
                 Ellipse(<<center - 3, center - 2, center + 3, center + 4>>,
                         COLORS.accent) >>
       ELSE IF name = "bound" THEN
           LET head_r == size \div 8
               chain_r == size \div 16
           IN << Ellipse(<<center - head_r, margin + size \div 6, center + head_r,
                           margin + size \div 6 + head_r * 2>>, color),
                 Rectangle(<<center - size \div 6, margin + size \div 6 + head_r * 2,
                             center + size \div 6, size - margin - size \div 6>>, color) >>
              \o ChainPair(0, size, margin, chain_r)
              \o ChainPair(1, size, margin, chain_r)
              \o ChainPair(2, size, margin, chain_r)
       ELSE <<>>

create_agent_icon(name, color, size) ==
    Image(size, size, Transparent, agent_icon_prims(name, color, size))

(***************************************************************************)
(* UI widgets: create_ui_panel (212-231), create_button (234-253),         *)
(* create_logo (256-284), create_exposure_meter (287-301).                 *)
(***************************************************************************)
create_ui_panel(size) ==
    LET border == 2
        inner == 4
        corner_size == 8
        xs == <<inner, size[1] - inner - corner_size>>
        ys == <<inner, size[2] - inner - corner_size>>
        Corner(x, y) == Rectangle(<<x, y, x + corner_size, y + corner_size>>, COLORS.accent)
    IN Image(size[1], size[2], COLORS.background \o <<240>>,
             << RectangleOutline(<<0, 0, size[1] - 1, size[2] - 1>>, None,
                                 COLORS.accent, border),
                RectangleOutline(<<inner, inner, size[1] - inner - 1, size[2] - inner - 1>>,
                                 None, COLORS.primary, 1),
                Corner(xs[1], ys[1]), Corner(xs[1], ys[2]),
                Corner(xs[2], ys[1]), Corner(xs[2], ys[2]) >>)

\* The states the if/elif chain of create_button binds fill and outline for.
ButtonStates == {"normal", "hover", "pressed"}

button_fill(state) ==
    IF state = "normal" THEN COLORS.primary
    ELSE IF state = "hover" THEN <<65, 47, 98>>
    ELSE <<25, 17, 58>>

button_outline(state) ==
    IF state = "pressed" THEN COLORS.secondary ELSE COLORS.accent

\* With a state matching no branch, fill is unbound when line 250 reads it:
\* UnboundLocalError.
create_button(size, state) ==
    IF state \notin ButtonStates THEN Raised("UnboundLocalError")
    ELSE Image(size[1], size[2], Transparent,
               draw_rounded_rect(<<0, 0, size[1] - 1, size[2] - 1>>, 6, button_fill(state))
               \o << RectangleOutline(<<0, 0, size[1] - 1, size[2] - 1>>, None,
                                      button_outline(state), 2) >>)

create_logo(size) ==
    LET center == size \div 2
        margin == size \div 8
        eye_size == size \div 5
        eye_y == center - size \div 10
        coin_r == size \div 6
    IN Image(size, size, Transparent,
             << Ellipse(<<margin, margin, size - margin, size - margin - size \div 6>>,
                        COLORS.secondary),
                Ellipse(<<center - size \div 4 - eye_size \div 2, eye_y - eye_size \div 2,
                          center - size \div 4 + eye_size \div 2, eye_y + eye_size \div 2>>,
                        COLORS.background),
                Ellipse(<<center + size \div 4 - eye_size \div 2, eye_y - eye_size \div 2,
                          center + size \div 4 + eye_size \div 2, eye_y + eye_size \div 2>>,
                        COLORS.background),
                Ellipse(<<center - coin_r - size \div 8, size - margin - coin_r * 2,
                          center - size \div 8, size - margin>>, COLORS.accent),
                Ellipse(<<center - coin_r \div 2, size - margin - coin_r * 2,
                          center + coin_r \div 2, size - margin>>, COLORS.accent),
                Ellipse(<<center + size \div 8 - coin_r, size - margin - coin_r * 2,
                          center + size \div 8, size - margin>>, COLORS.accent) >>)

\* int(t * size[0]) for the thresholds t = 0.25, 0.50, 0.75, in hundredths.
create_exposure_meter(size) ==
    LET Marker(t) ==
            LET x == TruncDiv(t * size[1], 100)
            IN Line(<<x, 0, x, size[2]>>, COLORS.accent, 1)
    IN Image(size[1], size[2], Transparent,
             << RectangleOutline(<<0, 0, size[1] - 1, size[2] - 1>>, COLORS.background,
                                 COLORS.secondary, 1),
                Marker(25), Marker(50), Marker(75) >>)

(***************************************************************************)
(* World map elements: create_kingdom_marker (333-358) and                 *)
(* create_region_terrain (361-399).                                        *)
(***************************************************************************)
create_kingdom_marker(size, color) ==
    LET tower == IF color = None THEN COLORS.accent ELSE color
        center == size \div 2
        tower_w == size \div 3
        batt_h == size \div 6
        batt_w == size \div 8
    IN Image(size, size, Transparent,
             << Rectangle(<<center - tower_w \div 2, size \div 4,
                            center + tower_w \div 2, size - 4>>, tower),
                Rectangle(<<center - tower_w \div 2 - batt_w, size \div 4,
                            center - tower_w \div 2 + batt_w, size \div 4 + batt_h>>, tower),
                Rectangle(<<center + tower_w \div 2 - batt_w, size \div 4,
                            center + tower_w \div 2 + batt_w, size \div 4 + batt_h>>, tower),
                Polygon(<<center, 4,
                          center + size \div 4, size \div 6,
                          center, size \div 4>>, COLORS.accent) >>)

region_terrain_prims(terrain_type, size) ==
    IF terrain_type = "coastal" THEN
        << Rectangle(<<0, 0, size - 1, size - 1>>, <<100, 149, 237>>),
           Polygon(<<0, 0, size \div 2, 0, 0, size \div 2>>, <<139, 119, 101>>) >>
    ELSE IF terrain_type = "inland" THEN
        << Rectangle(<<0, 0, size - 1, size - 1>>, <<107, 142, 35>>) >>
    ELSE IF terrain_type = "mountain" THEN
        << Rectangle(<<0, 0, size - 1, size - 1>>, <<119, 136, 153>>),
           Polygon(<<size \div 2, size \div 6,
                     size \div 6, size - size \div 6,
                     size - size \div 6, size - size \div 6>>, <<169, 169, 169>>),
           Polygon(<<size \div 2, size \div 6,
                     size \div 3, size \div 3,
                     size - size \div 3, size \div 3>>, <<255, 255, 255>>) >>
    ELSE IF terrain_type = "forest" THEN
        LET Tree(x) == Polygon(<<x, size \div 4,
                                 x - size \div 6, size - size \div 4,
                                 x + size \div 6, size - size \div 4>>, <<0, 100, 0>>)
        IN << Rectangle(<<0, 0, size - 1, size - 1>>, <<34, 85, 34>>),
              Tree(size \div 4), Tree(size \div 2), Tree((3 * size) \div 4) >>
    ELSE <<>>

create_region_terrain(terrain_type, size) ==
    Image(size, size, Transparent, region_terrain_prims(terrain_type, size))

(***************************************************************************)
(* create_controller_button (generate_assets.py:402-501).                  *)
(***************************************************************************)
\* button_colors.get(button_type, COLORS['secondary']) (lines 411-427).
button_color(button_type) ==
    IF button_type = "a" THEN <<106, 175, 80>>
    ELSE IF button_type = "b" THEN <<215, 85, 65>>
    ELSE IF button_type = "x" THEN <<85, 160, 210>>
    ELSE IF button_type = "y" THEN <<245, 185, 55>>
    ELSE COLORS.secondary

\* The letter drawn on a face button (lines 433-466).
face_letter_prims(button_type, size) ==
    LET center == size \div 2
        margin == size \div 8
        letter_size == size \div 3
        half == letter_size \div 2
        lw == letter_size \div 4
        bg == COLORS.background
    IN IF button_type = "a" THEN
           << Polygon(<<center, margin + half,
                        center - half, size - margin - half,
                        center + half, size - margin - half>>, bg) >>
       ELSE IF button_type = "b" THEN
           << Ellipse(<<center - half, center - half, center + half, center>>, bg),
              Ellipse(<<center - half, center, center + half, center + half>>, bg),
              Rectangle(<<center - half, center - half,
                          center - letter_size \div 4, center + half>>, bg) >>
       ELSE IF button_type = "x" THEN
           << Line(<<center - half, center - half, center + half, center + half>>, bg, lw),
              Line(<<center + half, center - half, center - half, center + half>>, bg, lw) >>
       ELSE IF button_type = "y" THEN
           << Line(<<center - half, center - half, center, center>>, bg, lw),
              Line(<<center + half, center - half, center, center>>, bg, lw),
              Line(<<center, center, center, center + half>>, bg, lw) >>
       ELSE <<>>

controller_button_prims(button_type, size) ==
    LET center == size \div 2
        margin == size \div 8
        color == button_color(button_type)
    IN IF button_type \in {"a", "b", "x", "y"} THEN
           << Ellipse(<<margin, margin, size - margin, size - margin>>, color) >>
           \o face_letter_prims(button_type, size)
       ELSE IF button_type \in {"lb", "rb"} THEN
           LET h == Max(size \div 4, 8)
               y0 == center - h \div 2
               y1 == center + h \div 2
           IN << RoundedRectangle(<<margin, y0, size - margin, y1>>, h \div 2, color) >>
       ELSE IF button_type \in {"lt", "rt"} THEN
           LET w == Max(size \div 3, 10)
               x0 == center - w \div 2
               x1 == center + w \div 2
           IN << RoundedRectangle(<<x0, margin, x1, size - margin>>, w \div 2, color) >>
       ELSE IF button_type = "dpad" THEN
           LET dpad_w == size \div 4
           IN << Rectangle(<<center - dpad_w \div 2, margin,
                             center + dpad_w \div 2, size - margin>>, color),
                 Rectangle(<<margin, center - dpad_w \div 2,
                             size - margin, center + dpad_w \div 2>>, color) >>
       ELSE IF button_type \in {"stick_l", "stick_r"} THEN
           LET dot_r == size \div 8
           IN << EllipseOutline(<<margin, margin, size - margin, size - margin>>, color, 3),
                 Ellipse(<<center - dot_r, center - dot_r, center + dot_r, center + dot_r>>,
                         color) >>
       ELSE IF button_type \in {"start", "back"} THEN
           LET h == Max(size \div 5, 6)
               x0 == margin + size \div 6
               x1 == size - margin - size \div 6
           IN << RoundedRectangle(<<x0, center - h, x1, center + h>>, h, color) >>
       ELSE <<>>

create_controller_button(button_type, size) ==
    Image(size, size, Transparent, controller_button_prims(button_type, size))

\* Bounds of the model.
MaxInitSeed == 2
MaxSize == 16
MaxCalls == 2
MaxOthers == 2
MaxInterference == 1
MaxCoord == 4
MaxRadius == 2

(***************************************************************************)
(* The process-wide generator of the random module (imported at line 314): *)
(* the library's Mersenne Twister, with seed, getrandbits and randint as   *)
(* CPython defines them.  A 32-bit word is the pair <<high, low>> of its   *)
(* 16-bit halves, so that no intermediate value reaches 2^31.              *)
(***************************************************************************)
Half == 65536

RECURSIVE BitXor(_, _)
BitXor(a, b) ==
    IF a = 0 THEN b ELSE IF b = 0 THEN a
    ELSE ((a + b) % 2) + 2 * BitXor(a \div 2, b \div 2)

RECURSIVE BitAnd(_, _)
BitAnd(a, b) ==
    IF a = 0 \/ b = 0 THEN 0
    ELSE (a % 2) * (b % 2) + 2 * BitAnd(a \div 2, b \div 2)

WordOf(n) == <<n \div Half, n % Half>>

XorW(a, b) == <<BitXor(a[1], b[1]), BitXor(a[2], b[2])>>

AndW(a, b) == <<BitAnd(a[1], b[1]), BitAnd(a[2], b[2])>>

\* a >> k, 0 <= k < 32.
ShrW(a, k) ==
    IF k >= 16 THEN <<0, a[1] \div 2^(k - 16)>>
    ELSE <<a[1] \div 2^k, (a[1] % 2^k) * 2^(16 - k) + a[2] \div 2^k>>

\* a << k in 32 bits, 0 <= k < 16.
ShlW(a, k) == <<(a[1] * 2^k + a[2] \div 2^(16 - k)) % Half, (a[2] * 2^k) % Half>>

\* a + b and a - b in 32 bits.
AddW(a, b) ==
    LET lo == a[2] + b[2]
    IN <<(a[1] + b[1] + lo \div Half) % Half, lo % Half>>

SubW(a, b) ==
    LET lo == a[2] - b[2]
    IN <<(a[1] - b[1] - (IF lo < 0 THEN 1 ELSE 0) + 2 * Half) % Half,
         (lo + Half) % Half>>

\* a * c in 32 bits; low(x, y) is the low 16 bits of x * y.
MulW(a, c) ==
    LET low(x, y) == (x * (y % 256) + ((x * (y \div 256)) % 256) * 256) % Half
        p1 == a[2] * (c[2] % 256)
        p2 == a[2] * (c[2] \div 256)
        s == p1 + (p2 % 256) * 256
    IN <<(s \div Half + p2 \div 256 + low(a[1], c[2]) + low(a[2], c[1])) % Half,
         s % Half>>

\* The size of the state vector and the offset of the recurrence.
N == 624
M == 397

\* cur ^ ((prev ^ (prev >> 30)) * mult), the mixing step of the seeding loops.
Mixed(cur, prev, mult) == XorW(cur, MulW(XorW(prev, ShrW(prev, 30)), mult))

\* init_genrand: mt[i] = 1812433253 * (mt[i-1] ^ (mt[i-1] >> 30)) + i.
\* mt[lo..hi] given prev = mt[lo - 1]; the range is computed as its first
\* half followed by the rest.
RECURSIVE init_genrand_run(_, _, _)
init_genrand_run(prev, lo, hi) ==
    IF lo = hi THEN << AddW(Mixed(<<0, 0>>, prev, <<27655, 35173>>), WordOf(lo)) >>
    ELSE LET mid == (lo + hi) \div 2
             Then(first) == first \o init_genrand_run(first[Len(first)], mid + 1, hi)
         IN Then(init_genrand_run(prev, lo, mid))

\* The state vector mt[0..N-1] (as a sequence, mt[i] at index i + 1).
init_genrand(s) == << WordOf(s) >> \o init_genrand_run(WordOf(s), 1, N - 1)

\* First loop of init_by_array, multiplier 1664525:
\* mt[i] = (mt[i] ^ mix(mt[i-1])) + init_key[j] + j.
KeyStep(cur, prev, init_key, j) ==
    AddW(AddW(Mixed(cur, prev, <<25, 26125>>), init_key[j + 1]), WordOf(j))

RECURSIVE key_run(_, _, _, _, _)
key_run(mt, prev, init_key, lo, hi) ==
    IF lo = hi THEN << KeyStep(mt[lo + 1], prev, init_key, (lo - 1) % Len(init_key)) >>
    ELSE LET mid == (lo + hi) \div 2
             Then(first) == first \o key_run(mt, first[Len(first)], init_key, mid + 1, hi)
         IN Then(key_run(mt, prev, init_key, lo, mid))

\* Second loop of init_by_array, multiplier 1566083941:
\* mt[i] = (mt[i] ^ mix(mt[i-1])) - i.
FinalStep(cur, prev, i) == SubW(Mixed(cur, prev, <<23896, 35685>>), WordOf(i))

RECURSIVE final_run(_, _, _, _)
final_run(mt, prev, lo, hi) ==
    IF lo = hi THEN << FinalStep(mt[lo + 1], prev, lo) >>
    ELSE LET mid == (lo + hi) \div 2
             Then(first) == first \o final_run(mt, first[Len(first)], mid + 1, hi)
         IN Then(final_run(mt, prev, lo, mid))

Seeded19650218 == init_genrand(19650218)

\* init_by_array for a key of at most N words.  The first loop runs N times:
\* i = 1..N-1, then mt[0] = mt[N-1] and once more at i = 1.  The second runs
\* N-1 times: i = 2..N-1, then mt[0] = mt[N-1] and at i = 1.  mt[0] ends as
\* 0x80000000.
init_by_array(init_key) ==
    LET Finish(one, last) ==
            << <<32768, 0>>, FinalStep(one, last[Len(last)], 1) >> \o last
        SecondLoop(pass, one) ==
            Finish(one, final_run(<< pass[N - 1], one >> \o SubSeq(pass, 2, N - 1),
                                  one, 2, N - 1))
        LastOfFirst(pass) ==
            SecondLoop(pass, KeyStep(pass[1], pass[N - 1], init_key,
                                     (N - 1) % Len(init_key)))
        FirstLoop(base) == LastOfFirst(key_run(base, base[1], init_key, 1, N - 1))
    IN FirstLoop(Seeded19650218)

\* The word the regeneration loop of genrand_uint32 leaves at mt[kk]:
\* mt[kk] = mt[(kk + M) % N] ^ (y >> 1) ^ (y odd ? 0x9908b0df : 0) with
\* y = (mt[kk] & 0x80000000) | (mt[(kk + 1) % N] & 0x7fffffff).  The loop
\* works in place from kk = 0 up, so mt[(kk + M) % N] and mt[0] are already
\* rewritten when kk >= N - M and when kk = N - 1.
RECURSIVE TwistedWord(_, _)
TwistedWord(mt, kk) ==
    LET far == IF kk < N - M THEN mt[kk + M + 1] ELSE TwistedWord(mt, kk + M - N)
        Word(y) ==
            XorW(XorW(far, ShrW(y, 1)),
                 IF y[2] % 2 = 1 THEN <<39176, 45279>> ELSE <<0, 0>>)
        Joined(nxt) ==
            Word(<<(mt[kk + 1][1] \div 32768) * 32768 + (nxt[1] % 32768), nxt[2]>>)
    IN Joined(IF kk = N - 1 THEN TwistedWord(mt, 0) ELSE mt[kk + 2])

twist(mt) == <<>> \o [kk \in 1..N |-> TwistedWord(mt, kk - 1)]

\* The tempering of genrand_uint32 (masks 0x9d2c5680 and 0xefc60000).
temper(w) ==
    LET T4(y) == XorW(y, ShrW(y, 18))
        T3(y) == T4(XorW(y, AndW(ShlW(y, 15), <<61382, 0>>)))
        T2(y) == T3(XorW(y, AndW(ShlW(y, 7), <<40236, 22144>>)))
    IN T2(XorW(w, ShrW(w, 11)))

\* The words genrand_uint32 returns over j regenerations of the state vector
\* mt, N tempered words for each.
RECURSIVE Stream(_, _)
Stream(mt, j) ==
    IF j = 0 THEN <<>>
    ELSE LET Out(next) ==
                 (<<>> \o [i \in 1..N |-> temper(next[i])]) \o Stream(next, j - 1)
         IN Out(twist(mt))

MapSeed == 42

\* The first TabulatedBlocks * N words of the streams of the seeds the
\* specifications use, computed once.
TabulatedSeeds == (0..MaxInitSeed) \cup {MapSeed}
TabulatedBlocks == 3

Tabulated ==
    [a \in TabulatedSeeds |-> Stream(init_by_array(<< WordOf(a) >>), TabulatedBlocks)]

\* A generator state is [key, pos]: the state random.seed(key) sets, advanced
\* by pos calls of genrand_uint32.  Seeding leaves the index at N, so the
\* first call regenerates.
\* random.seed(a) for an integer a, 0 <= |a| < 2^31: the key is the one word |a|.
seed(a) == [key |-> Abs(a), pos |-> 0]

\* genrand_uint32: the word returned in state g.
genrand_uint32(g) ==
    IF g.key \in TabulatedSeeds /\ g.pos < TabulatedBlocks * N
    THEN Tabulated[g.key][g.pos + 1]
    ELSE Stream(init_by_array(<< WordOf(g.key) >>), g.pos \div N + 1)[g.pos + 1]

RECURSIVE bit_length(_)
bit_length(n) == IF n = 0 THEN 0 ELSE 1 + bit_length(n \div 2)

\* random.getrandbits(k) for 1 <= k <= 31: genrand_uint32() >> (32 - k).
getrandbits(g, k) ==
    LET Top(w) == IF k <= 16 THEN w[1] \div 2^(16 - k)
                  ELSE w[1] * 2^(k - 16) + w[2] \div 2^(32 - k)
    IN Top(genrand_uint32(g))

\* Random._randbelow(n), n >= 1: getrandbits(n.bit_length()) is drawn again
\* until it is below n.  The value and the state after the last draw.
RECURSIVE randbelow(_, _)
randbelow(g, n) ==
    LET Try(r, next) == IF r < n THEN [v |-> r, g |-> next] ELSE randbelow(next, n)
    IN Try(getrandbits(g, bit_length(n)), [g EXCEPT !.pos = @ + 1])

\* random.randint(lo, hi), lo <= hi: the value drawn and the state after.
randint(g, lo, hi) ==
    LET Shifted(d) == [v |-> lo + d.v, g |-> d.g]
    IN Shifted(randbelow(g, hi - lo + 1))

(***************************************************************************)
(* create_world_map_background (generate_assets.py:304-330).               *)
(***************************************************************************)
parchment == <<218, 197, 165>>
NumSpots == 100

\* The four draws of one loop iteration (lines 317-320), from state g:
\* the values x, y, r, shade and the state after them.
SpotDraws(g, size) ==
    LET Drawn(x, y, r, shade) ==
            [x |-> x.v, y |-> y.v, r |-> r.v, shade |-> shade.v, g |-> shade.g]
        Line320(x, y, r) == Drawn(x, y, r, randint(r.g, -20, 20))
        Line319(x, y) == Line320(x, y, randint(y.g, 5, 20))
        Line318(x) == Line319(x, randint(x.g, 0, size[2]))
    IN Line318(randint(g, 0, size[1]))

\* The loop of lines 316-323 run n times from state g: the sequence of
\* <<x, y, r, shade>> and the generator state it leaves.  The n iterations
\* are evaluated as the first n \div 2 followed by the rest, started from
\* the state the first part leaves.
RECURSIVE Scatter(_, _, _)
Scatter(g, size, n) ==
    IF n = 0 THEN [spots |-> <<>>, g |-> g]
    ELSE IF n = 1 THEN
        LET One(d) == [spots |-> << <<d.x, d.y, d.r, d.shade>> >>, g |-> d.g]
        IN One(SpotDraws(g, size))
    ELSE LET Both(first, rest) == [spots |-> first.spots \o rest.spots, g |-> rest.g]
             Then(first) == Both(first, Scatter(first.g, size, n - n \div 2))
         IN Then(Scatter(g, size, n \div 2))

\* The generator state the scatter starts from (line 315), given the state g
\* the process-wide generator is in when the function is entered.
NoReseed(g) == g

SeedForScatter(g) == seed(MapSeed)

\* What one call does to the generator and which spots it draws.
MapScatter(g, size) == Scatter(SeedForScatter(g), size, NumSpots)

clamp(c) == Max(0, Min(255, c))

\* spot_color with the blue bias applied to every channel.
spot_color_all_biased(shade) ==
    << clamp(parchment[1] + shade - 10), clamp(parchment[2] + shade - 10),
       clamp(parchment[3] + shade - 10) >>

\* spot_color of lines 321-322.
spot_color(shade) ==
    << clamp(parchment[1] + shade), clamp(parchment[2] + shade),
       clamp(parchment[3] + shade - 10) >>

SpotEllipse(spot) ==
    LET x == spot[1]
        y == spot[2]
        r == spot[3]
    IN Ellipse(<<x - r, y - r, x + r, y + r>>, spot_color(spot[4]))

create_world_map_background(g, size) ==
    LET border == 8
        Drawn(spots) ==
            Image(size[1], size[2], Transparent,
                  << Rectangle(<<0, 0, size[1] - 1, size[2] - 1>>, parchment) >>
                  \o [i \in 1..Len(spots) |-> SpotEllipse(spots[i])]
                  \o << RectangleOutline(<<0, 0, size[1] - 1, size[2] - 1>>, None,
                                         <<101, 67, 33>>, border),
                        RectangleOutline(<<border, border, size[1] - border - 1,
                                           size[2] - border - 1>>, None,
                                         COLORS.accent, 2) >>)
    IN Drawn(MapScatter(g, size).spots)

(***************************************************************************)
(* Dispatch of one composer call as main() and other callers make it.      *)
(* A size is a pair <<w, h>>; the square composers receive w.              *)
(***************************************************************************)
Compose(family, key, color, size, g) ==
    IF family = "investment" THEN create_investment_icon(key, color, size[1])
    ELSE IF family = "agent" THEN create_agent_icon(key, color, size[1])
    ELSE IF family = "panel" THEN create_ui_panel(size)
    ELSE IF family = "button" THEN create_button(size, key)
    ELSE IF family = "meter" THEN create_exposure_meter(size)
    ELSE IF family = "logo" THEN create_logo(size[1])
    ELSE IF family = "map" THEN create_world_map_background(g, size)
    ELSE IF family = "kingdom" THEN create_kingdom_marker(size[1], color)
    ELSE IF family = "terrain" THEN create_region_terrain(key, size[1])
    ELSE create_controller_button(key, size[1])

\* The generator state after the call: only the map background draws.
RngAfter(family, size, g) ==
    IF family = "map" THEN MapScatter(g, size).g ELSE g

(***************************************************************************)
(* main() (generate_assets.py:504-648) as a program: the sequence of       *)
(* ensure_dir calls and of (compose, save) pairs its loops run through,     *)
(* in source order, followed by the write of the manifest.                 *)
(***************************************************************************)
ASSETS_DIR == "tools/../assets"

Join(a, b) == a \o "/" \o b

EnsureDir(dir) == [op |-> "ensure_dir", dir |-> dir]

\* One compose-and-save pair: the composer arguments, the path saved to, and
\* the manifest section and logical name the file belongs to (the file name
\* without its extension and, where one name is generated at several sizes
\* under one manifest entry, without its size suffix).
Asset(family, key, color, size, dir, stem, group, logical) ==
    [op |-> "asset", family |-> family, key |-> key, color |-> color, size |-> size,
     dir |-> dir, path |-> Join(dir, stem \o ".png"), group |-> group,
     logical |-> logical]

\* for outer in items: for size in sizes: ... flattened: iteration i of the
\* pair of loops has the outer element OuterOf and the size InnerOf.
OuterOf(items, sizes, i) == items[((i - 1) \div Len(sizes)) + 1]
InnerOf(sizes, i) == sizes[((i - 1) % Len(sizes)) + 1]

icons_dir == Join(Join(Join(ASSETS_DIR, "textures"), "icons"), "investments")
agents_dir == Join(Join(Join(ASSETS_DIR, "textures"), "icons"), "agents")
ui_dir == Join(Join(ASSETS_DIR, "textures"), "ui")
world_dir == Join(Join(ASSETS_DIR, "textures"), "world")
glyphs_dir == Join(Join(ASSETS_DIR, "textures"), "glyphs")

IconSizesShort == <<32, 64>>

IconSizes == <<32, 64, 128>>

InvestmentSteps ==
    [i \in 1..(Len(INVESTMENT_COLORS) * Len(IconSizes)) |->
        LET name == OuterOf(INVESTMENT_COLORS, IconSizes, i)[1]
            color == OuterOf(INVESTMENT_COLORS, IconSizes, i)[2]
            size == InnerOf(IconSizes, i)
        IN Asset("investment", name, color, <<size, size>>, icons_dir,
                 name \o "_" \o ToString(size), "investments", name)]

AgentSteps ==
    [i \in 1..(Len(AGENT_COLORS) * Len(IconSizes)) |->
        LET name == OuterOf(AGENT_COLORS, IconSizes, i)[1]
            color == OuterOf(AGENT_COLORS, IconSizes, i)[2]
            size == InnerOf(IconSizes, i)
        IN Asset("agent", name, color, <<size, size>>, agents_dir,
                 name \o "_" \o ToString(size), "agents", name)]

PanelSizes == << <<256, 128>>, <<256, 256>>, <<512, 256>> >>

PanelSteps ==
    [i \in 1..Len(PanelSizes) |->
        LET stem == "panel_" \o ToString(PanelSizes[i][1]) \o "x"
                    \o ToString(PanelSizes[i][2])
        IN Asset("panel", "panel", None, PanelSizes[i], ui_dir, stem, "ui", stem)]

ButtonStateList == <<"normal", "hover", "pressed">>

\* create_button(state=state): size keeps its default (128, 48).
ButtonSteps ==
    [i \in 1..Len(ButtonStateList) |->
        LET stem == "button_" \o ButtonStateList[i]
        IN Asset("button", ButtonStateList[i], None, <<128, 48>>, ui_dir, stem, "ui", stem)]

MeterSteps ==
    << Asset("meter", "exposure_meter", None, <<200, 24>>, ui_dir, "exposure_meter_bg",
             "ui", "exposure_meter_bg") >>

LogoSteps ==
    << Asset("logo", "logo", None, <<256, 256>>, ui_dir, "logo_256", "ui", "logo_256"),
       Asset("logo", "logo", None, <<128, 128>>, ui_dir, "logo_128", "ui", "logo_128") >>

MapSteps ==
    << Asset("map", "map_background", None, <<512, 512>>, world_dir, "map_background",
             "world", "map_background") >>

kingdom_colors ==
    << <<"valdris", <<178, 34, 34>> >>,
       <<"meridia", <<65, 105, 225>> >>,
       <<"thornwood", <<34, 85, 34>> >>,
       <<"ashmark", <<128, 128, 128>> >>,
       <<"sunhold", <<218, 165, 32>> >>,
       <<"neutral", <<169, 169, 169>> >> >>

KingdomSizes == <<24, 32, 48>>

\* The marker file named without its size.
KingdomStepsNoSize ==
    [i \in 1..(Len(kingdom_colors) * Len(KingdomSizes)) |->
        LET name == OuterOf(kingdom_colors, KingdomSizes, i)[1]
            color == OuterOf(kingdom_colors, KingdomSizes, i)[2]
            s == InnerOf(KingdomSizes, i)
        IN Asset("kingdom", name, color, <<s, s>>, world_dir,
                 "kingdom_" \o name, "world", "kingdom_" \o name)]

KingdomSteps ==
    [i \in 1..(Len(kingdom_colors) * Len(KingdomSizes)) |->
        LET name == OuterOf(kingdom_colors, KingdomSizes, i)[1]
            color == OuterOf(kingdom_colors, KingdomSizes, i)[2]
            s == InnerOf(KingdomSizes, i)
        IN Asset("kingdom", name, color, <<s, s>>, world_dir,
                 "kingdom_" \o name \o "_" \o ToString(s), "world", "kingdom_" \o name)]

TerrainList == <<"coastal", "inland", "mountain", "forest">>

TerrainSteps ==
    [i \in 1..Len(TerrainList) |->
        Asset("terrain", TerrainList[i], None, <<64, 64>>, world_dir,
              "terrain_" \o TerrainList[i], "world", "terrain_" \o TerrainList[i])]

button_types ==
    <<"a", "b", "x", "y", "lb", "rb", "lt", "rt", "dpad", "start", "back",
      "stick_l", "stick_r">>

GlyphSizes == <<32, 48, 64>>

GlyphSteps ==
    [i \in 1..(Len(button_types) * Len(GlyphSizes)) |->
        LET btn == OuterOf(button_types, GlyphSizes, i)
            s == InnerOf(GlyphSizes, i)
        IN Asset("controller", btn, None, <<s, s>>, glyphs_dir,
                 "xbox_" \o btn \o "_" \o ToString(s), "glyphs", "xbox_" \o btn)]

Program ==
    << EnsureDir(icons_dir) >> \o InvestmentSteps
    \o << EnsureDir(agents_dir) >> \o AgentSteps
    \o << EnsureDir(ui_dir) >> \o PanelSteps \o ButtonSteps \o MeterSteps \o LogoSteps
    \o << EnsureDir(world_dir) >> \o MapSteps \o KingdomSteps \o TerrainSteps
    \o << EnsureDir(glyphs_dir) >> \o GlyphSteps

\* The manifest text written at lines 597-644: the names listed under each
\* section of "textures".
ManifestText ==
    [investments |-> <<"property", "trade", "financial", "magical", "political", "dark">>,
     agents |-> <<"individual", "family", "cult", "bound">>,
     ui |-> <<"panel_256x128", "panel_256x256", "panel_512x256", "button_normal",
              "button_hover", "button_pressed", "exposure_meter_bg", "logo_128",
              "logo_256">>,
     world |-> <<"map_background", "kingdom_valdris", "kingdom_meridia",
                 "kingdom_thornwood", "kingdom_ashmark", "kingdom_sunhold",
                 "kingdom_neutral", "terrain_coastal", "terrain_inland",
                 "terrain_mountain", "terrain_forest">>]

manifest_path == Join(ASSETS_DIR, "manifest.yaml")

(***************************************************************************)
(* Rasterisation of the filled box primitives, for the claims that sample  *)
(* pixels.  A rectangle fills its inclusive box.  An ellipse fills the      *)
(* pixels whose centre lies in the ellipse inscribed in its box (in        *)
(* doubled coordinates relative to the box centre), a pie slice the part   *)
(* of it in the quadrant of its angles.  On a box of zero width and height *)
(* the library paints either nothing or the single pixel of the box:       *)
(* point says which.                                                       *)
(***************************************************************************)
InBox(xy, x, y) == xy[1] <= x /\ x <= xy[3] /\ xy[2] <= y /\ y <= xy[4]

InEllipse(xy, x, y, point) ==
    LET a == xy[3] - xy[1]
        b == xy[4] - xy[2]
        dx == 2 * x - xy[1] - xy[3]
        dy == 2 * y - xy[2] - xy[4]
    IN /\ InBox(xy, x, y)
       /\ IF a = 0 /\ b = 0 THEN point
          ELSE dx * dx * b * b + dy * dy * a * a <= a * a * b * b

InQuadrant(xy, start, x, y) ==
    LET dx == 2 * x - xy[1] - xy[3]
        dy == 2 * y - xy[2] - xy[4]
    IN IF start = 180 THEN dx <= 0 /\ dy <= 0
       ELSE IF start = 270 THEN dx >= 0 /\ dy <= 0
       ELSE IF start = 90 THEN dx <= 0 /\ dy >= 0
       ELSE dx >= 0 /\ dy >= 0

RasterOps == {"rectangle", "ellipse", "pieslice"}

Covers(prim, x, y, point) ==
    /\ prim.fill # None
    /\ IF prim.op = "rectangle" THEN InBox(prim.xy, x, y)
       ELSE IF prim.op = "ellipse" THEN InEllipse(prim.xy, x, y, point)
       ELSE /\ prim.op = "pieslice"
            /\ InEllipse(prim.xy, x, y, point)
            /\ InQuadrant(prim.xy, prim.start, x, y)

\* The pixels of canvas that a sequence of draw calls fills.
Filled(prims, canvas, point) ==
    {p \in canvas : \E i \in 1..Len(prims) : Covers(prims[i], p[1], p[2], point)}

\* The colour of pixel (x, y) of an image: the fill of the last call that
\* covers it, the background of the canvas otherwise.
PixelAt(img, x, y) ==
    LET hits == {i \in 1..Len(img.prims) : Covers(img.prims[i], x, y, TRUE)}
    IN IF hits = {} THEN img.bg
       ELSE img.prims[CHOOSE i \in hits : \A j \in hits : j <= i].fill

(***************************************************************************)
(* State.                                                                  *)
(***************************************************************************)
VARIABLES
    rng,          \* state of the process-wide random generator
    status,       \* main(): "off", "running", "done" or "aborted"
    pc,           \* main(): index in Program of the next step
    dirs,         \* main(): directories that exist
    calls,        \* main(): composer invocations made, <<family, key, size>>
    saved,        \* main(): files written, in order
    manifest,     \* main(): the manifest file
    failedAt,     \* main(): index of the step whose exception left main, or 0
    cReq,         \* a single composer call: its arguments
    cRes,         \* a single composer call: its outcome
    runs,         \* map background: the spots of each completed call
    others,       \* map background: draws and reseeds made by other code
    pcA,          \* a map background call run draw by draw: its position
    aIndex,       \* ... the number of values it has drawn
    aMatches,     \* ... whether each value so far is the one of a lone call
    rngBefore,    \* ... the generator state when it was entered
    aAlone,       \* ... the generator state of a lone call at this position
    spotIn,       \* one iteration of the spot loop: the values drawn
    spotOut,      \* ... the ellipse call it issues
    rrArgs,       \* draw_rounded_rect: <<x0, y0, x1, y1, radius>>
    rrPoint,      \* draw_rounded_rect: the library's choice on a zero-size box
    rrFilled,     \* draw_rounded_rect: the pixels filled
    rrDone        \* draw_rounded_rect: whether the call has been made

mainVars == <<status, pc, dirs, calls, saved, manifest, failedAt>>
composeVars == <<cReq, cRes>>
mapVars == <<runs, others, pcA, aIndex, aMatches, rngBefore, aAlone, spotIn, spotOut>>
roundVars == <<rrArgs, rrPoint, rrFilled, rrDone>>
vars == <<rng, mainVars, composeVars, mapVars, roundVars>>

\* States the generator may be in before the modelled code runs.
RngInitStates == {seed(a) : a \in 0..MaxInitSeed} \cup {seed(MapSeed)}

NoManifest == [written |-> FALSE]
NoReq == [family |-> "none"]
NoRes == [kind |-> "none"]

MainOff ==
    /\ status = "off" /\ pc = 0 /\ dirs = {} /\ calls = <<>> /\ saved = <<>>
    /\ manifest = NoManifest /\ failedAt = 0
ComposeOff == cReq = NoReq /\ cRes = NoRes
MapOff ==
    /\ runs = <<>> /\ others = 0 /\ pcA = "off" /\ aIndex = 0 /\ aMatches = TRUE
    /\ rngBefore = seed(0) /\ aAlone = seed(0) /\ spotIn = <<>> /\ spotOut = <<>>
RoundOff == rrArgs = <<>> /\ rrPoint = FALSE /\ rrFilled = {} /\ rrDone = FALSE

(***************************************************************************)
(* main(): one action per step of Program.  The composers and save raise   *)
(* into main, which has no handler: an exception ends the run.             *)
(***************************************************************************)
Init ==
    /\ rng \in RngInitStates
    /\ status = "running" /\ pc = 1 /\ dirs = {} /\ calls = <<>> /\ saved = <<>>
    /\ manifest = NoManifest /\ failedAt = 0
    /\ ComposeOff /\ MapOff /\ RoundOff

AtStep(op) == status = "running" /\ pc \in 1..Len(Program) /\ Program[pc].op = op

EnsureDirStep ==
    /\ AtStep("ensure_dir")
    /\ dirs' = dirs \cup {Program[pc].dir}
    /\ pc' = pc + 1
    /\ UNCHANGED <<rng, status, calls, saved, manifest, failedAt>>
    /\ UNCHANGED <<composeVars, mapVars, roundVars>>

Invocation(step) == <<step.family, step.key, step.size>>

FileOf(step) ==
    [path |-> step.path, family |-> step.family, key |-> step.key, size |-> step.size,
     group |-> step.group, logical |-> step.logical]

\* The composer returns an image and save writes it.
GenerateAsset ==
    /\ AtStep("asset")
    /\ LET step == Program[pc]
           out == Compose(step.family, step.key, step.color, step.size, rng)
       IN /\ out.kind = "image"
          /\ step.dir \in dirs
          /\ calls' = Append(calls, Invocation(step))
          /\ saved' = Append(saved, FileOf(step))
          /\ rng' = RngAfter(step.family, step.size, rng)
    /\ pc' = pc + 1
    /\ UNCHANGED <<status, dirs, manifest, failedAt>>
    /\ UNCHANGED <<composeVars, mapVars, roundVars>>

\* The composer raises, or it returns and save raises (an I/O error): the
\* exception propagates out of main.
AssetFails ==
    /\ AtStep("asset")
    /\ LET step == Program[pc]
       IN /\ calls' = Append(calls, Invocation(step))
          /\ rng' = RngAfter(step.family, step.size, rng)
    /\ status' = "aborted"
    /\ failedAt' = pc
    /\ UNCHANGED <<pc, dirs, saved, manifest>>
    /\ UNCHANGED <<composeVars, mapVars, roundVars>>

WriteManifest ==
    /\ status = "running" /\ pc = Len(Program) + 1
    /\ manifest' = [written |-> TRUE, path |-> manifest_path, textures |-> ManifestText]
    /\ status' = "done"
    /\ UNCHANGED <<rng, pc, dirs, calls, saved, failedAt>>
    /\ UNCHANGED <<composeVars, mapVars, roundVars>>

Next == EnsureDirStep \/ GenerateAsset \/ AssetFails \/ WriteManifest

Spec == Init /\ [][Next]_vars

(***************************************************************************)
(* One composer call on arguments drawn from: every call main() makes,     *)
(* the same calls at every size 1..MaxSize, and the keyed composers on     *)
(* keys none of their branches names.                                      *)
(***************************************************************************)
AssetSteps == {Program[i] : i \in {j \in 1..Len(Program) : Program[j].op = "asset"}}

Request(family, key, color, size) ==
    [family |-> family, key |-> key, color |-> color, size |-> size]

CatalogInputs == {Request(st.family, st.key, st.color, st.size) : st \in AssetSteps}

SmallInputs ==
    {Request(st.family, st.key, st.color, <<n, n>>) : st \in AssetSteps, n \in 1..MaxSize}

\* The families whose composer dispatches on its key argument.
KeyedFamilies == {"investment", "agent", "button", "terrain", "controller"}

UnknownKeys == {"bogus", "Property"}

ProbeColor == <<1, 2, 3>>

UnknownInputs ==
    {Request(st.family, k, ProbeColor, st.size) :
        st \in {t \in AssetSteps : t.family \in KeyedFamilies}, k \in UnknownKeys}

ComposeInputs == CatalogInputs \cup SmallInputs \cup UnknownInputs

\* The keys a keyed family's composer has a branch for.
RecognizedKeys(family) ==
    {st.key : st \in {t \in AssetSteps : t.family = family}}

ComposeInit ==
    /\ rng \in RngInitStates
    /\ cReq \in ComposeInputs
    /\ cRes = NoRes
    /\ MainOff /\ MapOff /\ RoundOff

ComposeCall ==
    /\ cReq # NoReq /\ cRes = NoRes
    /\ cRes' = Compose(cReq.family, cReq.key, cReq.color, cReq.size, rng)
    /\ rng' = RngAfter(cReq.family, cReq.size, rng)
    /\ UNCHANGED <<cReq, mainVars, mapVars, roundVars>>

ComposeNext == ComposeCall

SpecCompose == ComposeInit /\ [][ComposeNext]_vars

(***************************************************************************)
(* create_world_map_background called repeatedly in one process, with      *)
(* other code drawing from and reseeding the process-wide generator        *)
(* between the calls.                                                      *)
(***************************************************************************)
MapSizes == { <<512, 512>>, <<256, 128>> }

OtherSeeds == (0..MaxInitSeed) \cup {MapSeed}

\* The bounds <<lo, hi>> of the random.randint calls other code makes.
OtherRanges == { <<0, 1>>, <<1, 6>> }

ScatterInit ==
    /\ rng \in RngInitStates
    /\ runs = <<>> /\ others = 0 /\ pcA = "off" /\ aIndex = 0 /\ aMatches = TRUE
    /\ rngBefore = seed(0) /\ aAlone = seed(0)
    /\ spotIn = <<>> /\ spotOut = <<>>
    /\ MainOff /\ ComposeOff /\ RoundOff

MapCall ==
    /\ Len(runs) < MaxCalls
    /\ \E size \in MapSizes :
          \E r \in {MapScatter(rng, size)} :
             /\ runs' = Append(runs, [size |-> size, spots |-> r.spots, entered |-> rng])
             /\ rng' = r.g
    /\ UNCHANGED <<others, pcA, aIndex, aMatches, rngBefore, aAlone>>
    /\ UNCHANGED <<mainVars, composeVars, roundVars, spotIn, spotOut>>

\* Other code draws one value from the process-wide generator.
OtherDraw ==
    /\ others < MaxOthers
    /\ \E b \in OtherRanges : rng' = randint(rng, b[1], b[2]).g
    /\ others' = others + 1
    /\ UNCHANGED <<runs, pcA, aIndex, aMatches, rngBefore, aAlone>>
    /\ UNCHANGED <<mainVars, composeVars, roundVars, spotIn, spotOut>>

\* Other code reseeds the process-wide generator.
OtherSeed ==
    /\ others < MaxOthers
    /\ \E a \in OtherSeeds : rng' = seed(a)
    /\ others' = others + 1
    /\ UNCHANGED <<runs, pcA, aIndex, aMatches, rngBefore, aAlone>>
    /\ UNCHANGED <<mainVars, composeVars, roundVars, spotIn, spotOut>>

ScatterNext == MapCall \/ OtherDraw \/ OtherSeed

SpecScatter == ScatterInit /\ [][ScatterNext]_vars

(***************************************************************************)
(* One create_world_map_background((512, 512)) call run statement by       *)
(* statement (its reseed, then each of its randint draws), interleaved     *)
(* with other code that uses the same generator: a draw, or the reseed     *)
(* that opens another create_world_map_background call.  aAlone follows    *)
(* the generator of the same call run with nothing interleaved.            *)
(***************************************************************************)
DrawsPerSpot == 4

\* The bounds of the k-th draw of an iteration (lines 317-320), k = 0..3.
DrawLo(k) == IF k = 2 THEN 5 ELSE IF k = 3 THEN -20 ELSE 0
DrawHi(k, size) == IF k = 0 THEN size[1] ELSE IF k = 1 THEN size[2] ELSE 20

InterleavedInit ==
    /\ rng \in RngInitStates
    /\ runs = <<>> /\ others = 0 /\ pcA = "seed" /\ aIndex = 0 /\ aMatches = TRUE
    /\ rngBefore = rng /\ aAlone = rng
    /\ spotIn = <<>> /\ spotOut = <<>>
    /\ MainOff /\ ComposeOff /\ RoundOff

\* Line 315.
CallSeeds ==
    /\ pcA = "seed"
    /\ rng' = SeedForScatter(rng)
    /\ aAlone' = SeedForScatter(aAlone)
    /\ pcA' = "draw"
    /\ UNCHANGED <<runs, others, aIndex, aMatches, rngBefore>>
    /\ UNCHANGED <<mainVars, composeVars, roundVars, spotIn, spotOut>>

\* One randint of lines 317-320.
CallDraws ==
    /\ pcA = "draw" /\ aIndex < DrawsPerSpot * NumSpots
    /\ LET k == aIndex % DrawsPerSpot
           size == <<512, 512>>
       IN \E drawn \in {randint(rng, DrawLo(k), DrawHi(k, size))} :
          \E alone \in {randint(aAlone, DrawLo(k), DrawHi(k, size))} :
             /\ rng' = drawn.g
             /\ aAlone' = alone.g
             /\ aMatches' = (aMatches /\ drawn.v = alone.v)
    /\ aIndex' = aIndex + 1
    /\ UNCHANGED <<runs, others, pcA, rngBefore>>
    /\ UNCHANGED <<mainVars, composeVars, roundVars, spotIn, spotOut>>

\* The loop is over; the borders are drawn and the image returned.
CallReturns ==
    /\ pcA = "draw" /\ aIndex = DrawsPerSpot * NumSpots
    /\ pcA' = "done"
    /\ UNCHANGED <<rng, runs, others, aIndex, aMatches, rngBefore, aAlone>>
    /\ UNCHANGED <<mainVars, composeVars, roundVars, spotIn, spotOut>>

InterleavedDraw ==
    /\ pcA # "done" /\ others < MaxInterference
    /\ \E b \in OtherRanges : rng' = randint(rng, b[1], b[2]).g
    /\ others' = others + 1
    /\ UNCHANGED <<runs, pcA, aIndex, aMatches, rngBefore, aAlone>>
    /\ UNCHANGED <<mainVars, composeVars, roundVars, spotIn, spotOut>>

InterleavedSeed ==
    /\ pcA # "done" /\ others < MaxInterference
    /\ rng' = seed(MapSeed)
    /\ others' = others + 1
    /\ UNCHANGED <<runs, pcA, aIndex, aMatches, rngBefore, aAlone>>
    /\ UNCHANGED <<mainVars, composeVars, roundVars, spotIn, spotOut>>

InterleavedNext ==
    CallSeeds \/ CallDraws \/ CallReturns \/ InterleavedDraw \/ InterleavedSeed

SpecInterleaved == InterleavedInit /\ [][InterleavedNext]_vars

(***************************************************************************)
(* draw_rounded_rect on a box and radius with 2 * radius no larger than    *)
(* the box, rasterised on a canvas one pixel larger than the boxes drawn.  *)
(***************************************************************************)
Canvas == (-1..(MaxCoord + 1)) \X (-1..(MaxCoord + 1))

RoundInputs ==
    {a \in (0..MaxCoord) \X (0..MaxCoord) \X (0..MaxCoord) \X (0..MaxCoord)
           \X (0..MaxRadius) :
        /\ a[1] <= a[3] /\ a[2] <= a[4]
        /\ 2 * a[5] <= a[3] - a[1] /\ 2 * a[5] <= a[4] - a[2]}

RoundInit ==
    /\ rng = seed(0)
    /\ rrArgs \in RoundInputs
    /\ rrPoint \in BOOLEAN
    /\ rrFilled = {} /\ rrDone = FALSE
    /\ MainOff /\ ComposeOff /\ MapOff

DrawRoundedRect ==
    /\ ~rrDone
    /\ rrFilled' = Filled(draw_rounded_rect(<<rrArgs[1], rrArgs[2], rrArgs[3], rrArgs[4]>>,
                                             rrArgs[5], COLORS.primary),
                          Canvas, rrPoint)
    /\ rrDone' = TRUE
    /\ UNCHANGED <<rng, rrArgs, rrPoint, mainVars, composeVars, mapVars>>

RoundNext == DrawRoundedRect

SpecRound == RoundInit /\ [][RoundNext]_vars

(***************************************************************************)
(* One iteration of the spot loop of create_world_map_background (lines    *)
(* 317-323) on every value the four randint calls can return for the       *)
(* shade, and on the extreme values of x, y and r for a 512 x 512 canvas.  *)
(***************************************************************************)
ShadeLo == -20
ShadeHi == 20

SpotInputs ==
    {<<x, y, r, shade>> : x \in {0, 512}, y \in {0, 512}, r \in {5, 20},
                           shade \in ShadeLo..ShadeHi}

SpotInit ==
    /\ rng = seed(MapSeed)
    /\ spotIn \in SpotInputs
    /\ spotOut = <<>>
    /\ runs = <<>> /\ others = 0 /\ pcA = "off" /\ aIndex = 0 /\ aMatches = TRUE
    /\ rngBefore = seed(0) /\ aAlone = seed(0)
    /\ MainOff /\ ComposeOff /\ RoundOff

\* Lines 321-323 on the values drawn.
DrawSpot ==
    /\ spotIn # <<>> /\ spotOut = <<>>
    /\ spotOut' = <<SpotEllipse(spotIn)>>
    /\ UNCHANGED <<rng, runs, others, pcA, aIndex, aMatches, rngBefore, aAlone, spotIn>>
    /\ UNCHANGED <<mainVars, composeVars, roundVars>>

SpotNext == DrawSpot

SpecSpot == SpotInit /\ [][SpotNext]_vars

(***************************************************************************)
(* Claims.                                                                 *)
(***************************************************************************)
Range(seq) == {seq[i] : i \in 1..Len(seq)}

Returned == cRes # NoRes

\* C1: a keyed composer (investment icon, agent icon, button state, terrain
\* tile, controller glyph) called with a key that is not one of its family's
\* recognized keys ends in an error; it never returns an image.
C1_UnknownKeyIsError ==
    (Returned /\ cReq.family \in KeyedFamilies
              /\ cReq.key \notin RecognizedKeys(cReq.family))
        => cRes.kind = "error"

\* C2: after main() completes, every file written has its logical name listed
\* in the manifest under its family, and the manifest lists no name of which
\* no file was written.
C2_ManifestListsGenerated ==
    status = "done" =>
        /\ \A f \in Range(saved) :
              /\ f.group \in DOMAIN manifest.textures
              /\ f.logical \in Range(manifest.textures[f.group])
        /\ \A g \in DOMAIN manifest.textures :
              \A n \in Range(manifest.textures[g]) :
                 \E f \in Range(saved) : f.group = g /\ f.logical = n

\* The catalog of section 6 of the specification, as <<family, key, size>>.
Square(sizes) == {<<n, n>> : n \in sizes}

Catalog ==
    ({"investment"}
        \X {"property", "trade", "financial", "magical", "political", "dark"}
        \X Square({32, 64, 128}))
    \cup ({"agent"} \X {"individual", "family", "cult", "bound"} \X Square({32, 64, 128}))
    \cup ({"panel"} \X {"panel"} \X { <<256, 128>>, <<256, 256>>, <<512, 256>> })
    \cup ({"button"} \X {"normal", "hover", "pressed"} \X { <<128, 48>> })
    \cup { <<"meter", "exposure_meter", <<200, 24>> >> }
    \cup ({"logo"} \X {"logo"} \X Square({128, 256}))
    \cup { <<"map", "map_background", <<512, 512>> >> }
    \cup ({"kingdom"}
        \X {"valdris", "meridia", "thornwood", "ashmark", "sunhold", "neutral"}
        \X Square({24, 32, 48}))
    \cup ({"terrain"} \X {"coastal", "inland", "mountain", "forest"} \X Square({64}))
    \cup ({"controller"}
        \X {"a", "b", "x", "y", "lb", "rb", "lt", "rt", "dpad", "start", "back",
            "stick_l", "stick_r"}
        \X Square({32, 48, 64}))

\* C3: a complete run of main() invokes the composers for exactly the pairs
\* of the catalog, each once, and writes one file for each invocation.
C3_CatalogExact ==
    status = "done" =>
        /\ Range(calls) = Catalog
        /\ Len(calls) = Cardinality(Catalog)
        /\ Len(saved) = Len(calls)
        /\ \A i \in 1..Len(saved) :
              <<saved[i].family, saved[i].key, saved[i].size>> = calls[i]

C3_Witness == status = "done" /\ Len(saved) = 101 /\ manifest.written

\* C4: every create_world_map_background call draws exactly 100 spots, and
\* any two calls with the same size draw the same sequence of
\* (x, y, r, shade), whatever state the generator was in when each began.
C4_ScatterDeterministic ==
    \A i \in 1..Len(runs) :
        /\ Len(runs[i].spots) = 100
        /\ \A j \in 1..Len(runs) :
              runs[i].size = runs[j].size => runs[i].spots = runs[j].spots

\* Two calls of one size, entered with the generator in different states.
C4_Witness ==
    \E i \in 1..Len(runs) : \E j \in 1..Len(runs) :
        /\ i < j /\ runs[i].size = runs[j].size
        /\ runs[i].entered # runs[j].entered
        /\ others > 0

\* C5: interleaved draw by draw with other users of the process-wide
\* generator, a map background call obtains the values it obtains alone, and
\* it leaves the shared generator as it found it.
C5_StreamIsolated ==
    /\ aMatches
    /\ (pcA = "done" /\ others = 0) => rng = rngBefore

\* C6: for every composer, recognized key and size >= 1, each rectangle and
\* ellipse issued has x0 <= x1 and y0 <= y1.
C6_BoundsWellFormed ==
    (cRes.kind = "image" /\ cReq \in CatalogInputs \cup SmallInputs) =>
        \A i \in 1..Len(cRes.prims) :
            cRes.prims[i].op \in {"rectangle", "ellipse"} =>
                /\ cRes.prims[i].xy[1] <= cRes.prims[i].xy[3]
                /\ cRes.prims[i].xy[2] <= cRes.prims[i].xy[4]

\* C7: when the composer or the save of one asset fails, every later asset
\* of the catalog is still generated and the manifest is still written.
C7_FailureIsLocal ==
    (failedAt # 0 /\ status \in {"done", "aborted"}) =>
        /\ manifest.written
        /\ \A i \in (failedAt + 1)..Len(Program) :
              Program[i].op = "asset" =>
                  \E k \in 1..Len(saved) : saved[k].path = Program[i].path

\* The financial icon of the end-to-end scenario.
Gold == <<201, 162, 39>>

FinancialCall == Request("investment", "financial", Gold, <<64, 64>>)

\* The pixels of a size x size canvas at distance d from its centre.
AtDistance(size, d) ==
    {p \in (0..(size - 1)) \X (0..(size - 1)) :
        (p[1] - size \div 2) * (p[1] - size \div 2)
        + (p[2] - size \div 2) * (p[2] - size \div 2) = d * d}

\* C8 as stated: the centre pixel is gold, a pixel at distance 20 from the
\* centre is the background colour, a pixel at distance 28 is gold, and the
\* outer ellipse spans [8,8]-[56,56].
C8_SamplesAsStated ==
    (Returned /\ cReq = FinancialCall) =>
        /\ PixelAt(cRes, 32, 32) = Gold
        /\ \E p \in AtDistance(64, 20) : PixelAt(cRes, p[1], p[2]) = COLORS.background
        /\ \E p \in AtDistance(64, 28) : PixelAt(cRes, p[1], p[2]) = Gold
        /\ cRes.prims[1].xy = <<8, 8, 56, 56>>

\* C8 amended: the centre pixel is gold, the pixels at distance 14 are the
\* background colour, the pixels at distance 20 are gold, the pixels at
\* distance 28 are untouched transparent canvas, and the outer ellipse spans
\* [8,8]-[56,56].
C8_Samples ==
    (Returned /\ cReq = FinancialCall) =>
        /\ \A i \in 1..Len(cRes.prims) : cRes.prims[i].op \in RasterOps
        /\ PixelAt(cRes, 32, 32) = Gold
        /\ \A p \in AtDistance(64, 14) : PixelAt(cRes, p[1], p[2]) = COLORS.background
        /\ \A p \in AtDistance(64, 20) : PixelAt(cRes, p[1], p[2]) = Gold
        /\ \A p \in AtDistance(64, 28) : PixelAt(cRes, p[1], p[2]) = Transparent
        /\ cRes.prims[1].op = "ellipse"
        /\ cRes.prims[1].xy = <<8, 8, 56, 56>>

C8_Witness ==
    /\ Returned /\ cReq = FinancialCall /\ cRes.kind = "image"
    /\ AtDistance(64, 14) # {} /\ AtDistance(64, 20) # {} /\ AtDistance(64, 28) # {}

\* The coordinates of the draw calls of two images differ by a factor k
\* within one pixel.
ScalesBy(small, big, k) ==
    /\ Len(big.prims) = Len(small.prims)
    /\ \A i \in 1..Len(small.prims) :
          /\ Len(big.prims[i].xy) = Len(small.prims[i].xy)
          /\ \A j \in 1..Len(small.prims[i].xy) :
                Abs(big.prims[i].xy[j] - k * small.prims[i].xy[j]) <= 1

Resized(req, k) ==
    Compose(req.family, req.key, req.color, <<k * req.size[1], k * req.size[2]>>, rng)

\* The composers that take one size and scale their whole drawing with it.
ScaledFamilies == {"investment", "agent", "logo", "kingdom", "terrain", "controller"}

\* C9: every coordinate a composer passes to a primitive is a fixed ratio of
\* size: at size 64 it is within one pixel of twice, and at size 128 within
\* one pixel of four times, its value at size 32 (likewise 128 against 64).
C9_Proportional ==
    (cRes.kind = "image" /\ cReq \in CatalogInputs /\ cReq.family \in ScaledFamilies) =>
        /\ cReq.size[1] \in {32, 64} => ScalesBy(cRes, Resized(cReq, 2), 2)
        /\ cReq.size[1] = 32 => ScalesBy(cRes, Resized(cReq, 4), 4)

\* C10: with radius 0 and well-formed bounds, the pixels draw_rounded_rect
\* fills are exactly those of the rectangle [x0, x1] x [y0, y1].
C10_RadiusZeroIsRectangle ==
    (rrDone /\ rrArgs[5] = 0) =>
        rrFilled = (rrArgs[1]..rrArgs[3]) \X (rrArgs[2]..rrArgs[4])

C10_Witness ==
    /\ rrDone /\ rrArgs[5] = 0 /\ rrArgs[1] + 2 <= rrArgs[3] /\ rrArgs[2] + 2 <= rrArgs[4]
    /\ rrFilled # {}

\* C11: for every shade in [-20, 20], the colour passed to the ellipse
\* primitive has the red and green channels equal to the parchment channel
\* plus the shade and the blue channel equal to the parchment channel plus
\* the shade minus 10, each clamped, and each channel lies in [0, 255].
C11_SpotColourValid ==
    spotOut # <<>> =>
        LET shade == spotIn[4]
            fill == spotOut[1].fill
            Clamped(c) == IF c < 0 THEN 0 ELSE IF c > 255 THEN 255 ELSE c
        IN /\ spotOut[1].op = "ellipse"
           /\ fill = <<Clamped(218 + shade), Clamped(197 + shade),
                       Clamped(165 + shade - 10)>>
           /\ \A k \in 1..3 : fill[k] >= 0 /\ fill[k] <= 255

C11_Witness ==
    /\ spotOut # <<>> /\ spotIn[4] = 20
    /\ spotOut[1].fill = <<238, 217, 175>>

\* Twice the signed area of the triangle a, b, p.
Cross(a, b, p) == (b[1] - a[1]) * (p[2] - a[2]) - (b[2] - a[2]) * (p[1] - a[1])

\* p lies inside or on the edge of the triangle whose points are the flat
\* list t.
InTriangle(t, p) ==
    LET a == <<t[1], t[2]>>
        b == <<t[3], t[4]>>
        c == <<t[5], t[6]>>
    IN \/ Cross(a, b, p) >= 0 /\ Cross(b, c, p) >= 0 /\ Cross(c, a, p) >= 0
       \/ Cross(a, b, p) <= 0 /\ Cross(b, c, p) <= 0 /\ Cross(c, a, p) <= 0

\* C12: in the mountain tile of size 64 and of every size >= 6, each vertex
\* of the white snow cap lies inside or on the edge of the gray mountain
\* triangle.
C12_SnowCapInsideMountain ==
    (cRes.kind = "image" /\ cReq.family = "terrain" /\ cReq.key = "mountain"
                         /\ cReq.size[1] >= 6) =>
        LET mountain == cRes.prims[2]
            cap == cRes.prims[3]
        IN /\ mountain.op = "polygon" /\ mountain.fill = <<169, 169, 169>>
           /\ cap.op = "polygon" /\ cap.fill = <<255, 255, 255>>
           /\ \A k \in 0..2 :
                 InTriangle(mountain.xy, <<cap.xy[2 * k + 1], cap.xy[2 * k + 2]>>)

\* C13: for every panel size of the catalog, each of the four corner
\* decorations covers an 8 x 8 pixel square that lies within the inner
\* border rectangle [4, 4, width - 5, height - 5] and has a corner at the
\* matching corner of that rectangle.
C13_PanelCorners ==
    (cRes.kind = "image" /\ cReq.family = "panel" /\ cReq \in CatalogInputs) =>
        LET w == cReq.size[1]
            h == cReq.size[2]
            inner == <<4, 4, w - 5, h - 5>>
        IN /\ cRes.prims[2].xy = inner
           /\ \A i \in 3..6 :
                 LET c == cRes.prims[i]
                 IN /\ c.op = "rectangle" /\ c.fill = COLORS.accent
                    /\ c.xy[3] - c.xy[1] + 1 = 8 /\ c.xy[4] - c.xy[2] + 1 = 8
                    /\ inner[1] <= c.xy[1] /\ c.xy[3] <= inner[3]
                    /\ inner[2] <= c.xy[2] /\ c.xy[4] <= inner[4]
                    /\ (c.xy[1] = inner[1] \/ c.xy[3] = inner[3])
                    /\ (c.xy[2] = inner[2] \/ c.xy[4] = inner[4])

\* C14: no two files of a run are saved to the same path, so the path
\* determines the (family, key, size) of the file and nothing written is
\* overwritten, and the manifest is written, to a path of its own, only
\* after every image file has been written.
C14_PathsDistinct ==
    /\ \A i \in 1..Len(saved) : \A j \in 1..Len(saved) :
          saved[i].path = saved[j].path =>
              /\ i = j
              /\ <<saved[i].family, saved[i].key, saved[i].size>>
                    = <<saved[j].family, saved[j].key, saved[j].size>>
    /\ manifest.written =>
          /\ \A st \in AssetSteps : \E k \in 1..Len(saved) : saved[k].path = st.path
          /\ \A k \in 1..Len(saved) : saved[k].path # manifest.path

C14_Witness ==
    /\ manifest.written /\ Len(saved) = Cardinality(AssetSteps) /\ Len(saved) > 100
    /\ \E i \in 1..Len(saved) : \E j \in 1..Len(saved) :
          /\ i # j /\ saved[i].family = saved[j].family /\ saved[i].key = saved[j].key

====
